---- MODULE Spec2Model ----
(***************************************************************************)
(* Model of the remediation decision engine of opscure_ml:                 *)
(*   - SafetyPolicy.evaluate_matrix / evaluate_command (remediation/safety)*)
(*   - FeedbackStore and ConfidenceScorer (remediation/confidence)         *)
(*   - RemediationAgent.run / _execute_actions (ai/agent)                  *)
(*   - CodePatcher.apply_patch (remediation/patcher)                       *)
(*   - XmlPatcher.remove_dependency / remove_plugin (remediation/xml_patcher)*)
(*   - ErrorCorrelator.cluster_by_time / rank_by_dependency                *)
(*     (ai/error_correlator)                                               *)
(* Scores are exact rationals <<numerator, denominator>>; raw confidences  *)
(* are given in thousandths.  Command strings are sequences of tokens      *)
(* (the words of the string, separated by single spaces).                  *)
(***************************************************************************)
EXTENDS Integers, Sequences, FiniteSets, TLC

VARIABLES
    config,       \* SafetyPolicy._config (SafetyConfiguration)
    mxCall,       \* the last evaluate_matrix call under this configuration
    cache,        \* FeedbackStore._cache
    disk,         \* content of the feedback file (storage_path)
    recorded,     \* history: outcomes recorded per signature (file + calls)
    proposal,     \* the proposal being evaluated / run
    ret,          \* the last ConfidenceResult / AgentResult
    pc,           \* "idle", "exec" (inside the loop) or "done" (call returned)
    idx,          \* index of the next action of _execute_actions
    all_success,  \* local of _execute_actions
    logs,         \* execution log of the current / last run
    runCtx,       \* the SafetyContext the proposal is applied in
    files,        \* the files the patchers work on
    call          \* the last call of a classifier, patcher or clusterer
                  \* function: its arguments, what it found and its result

vars == <<config, mxCall, cache, disk, recorded, proposal, ret,
          pc, idx, all_success, logs, runCtx, files, call>>

storeVars  == <<cache, disk, recorded>>
agentVars  == <<proposal, ret, pc, idx, all_success, logs, runCtx, files>>

----------------------------------------------------------------------------
(* Bounds *)
MaxOverrides == 2
MaxTotal     == 5
MaxActions   == 2
MaxPatterns  == 2
MaxText      == 4
MaxBlocks    == 2
MaxLogs      == 3

\* Python's None for a string, a text, a rate and a context.
None     == "None"
NoneText == <<"None">>
NoneRate == <<>>

----------------------------------------------------------------------------
(* remediation/context.py *)
Environment   == {"DEV", "PROD", "UNKNOWN"}
Scope         == {"SOURCE_CODE", "INFRA", "CONFIG", "UNKNOWN"}
ExecutionMode == {"AUTO_PR", "DIRECT_APPLY"}
SafetyLevel   == {"SAFE", "REQUIRE_APPROVAL", "BLOCKED"}

SafetyContext == [environment : Environment, scope : Scope,
                  execution_mode : ExecutionMode]

NoContext == [environment |-> None, scope |-> None, execution_mode |-> None]

\* no call made yet
NoCall == [op |-> None]

\* Strictness of a level: BLOCKED > REQUIRE_APPROVAL > SAFE.
Strictness(level) ==
    CASE level = "SAFE" -> 0
      [] level = "REQUIRE_APPROVAL" -> 1
      [] level = "BLOCKED" -> 2

----------------------------------------------------------------------------
(* remediation/config.py *)

\* A matrix override as found in the JSON file.  "MISSING" stands for an
\* absent key; "ALLOW" is a level string that is no SafetyLevel.
OverrideEnvs   == {"DEV", "PROD"}
OverrideScopes == {"INFRA", "SOURCE_CODE"}
OverrideLevels == SafetyLevel \cup {"MISSING", "ALLOW"}
OverridePool   == [environment : OverrideEnvs, scope : OverrideScopes,
                   level : OverrideLevels]

SeqsUpTo(S, n) == UNION {[1..k -> S] : k \in 0..n}

\* SafetyConfiguration(): the dataclass defaults.
SafetyConfiguration ==
    [custom_allowed_commands |-> {},
     custom_blocked_patterns |-> <<>>,
     matrix_overrides        |-> <<>>]

\* A JSON file on disk: status "missing", "corrupt" (json.load fails) or
\* "ok", what it holds when it is ok, and whether it can be written.
DiskFile(status, content, writable) ==
    [status |-> status, content |-> content, writable |-> writable]

\* The configuration files load_config may be pointed at.
ConfigFiles ==
    {DiskFile("missing", SafetyConfiguration, TRUE),
     DiskFile("corrupt", SafetyConfiguration, TRUE)} \cup
    {DiskFile("ok", c, TRUE) : c \in
        [custom_allowed_commands : {{}},
         custom_blocked_patterns : {<<>>},
         matrix_overrides        : SeqsUpTo(OverridePool, MaxOverrides)] \cup
        [custom_allowed_commands : {{"my_custom_tool"}},
         custom_blocked_patterns : {<<"grep">>},
         matrix_overrides        : SeqsUpTo(OverridePool, 1)]}

\* ConfigLoader.load: a missing or unreadable file yields the defaults.
ConfigLoader_load(file) ==
    IF file.status = "ok" THEN file.content ELSE SafetyConfiguration

----------------------------------------------------------------------------
(* remediation/safety.py: Layer 1, the safety matrix *)

\* Indices of the overrides whose environment and scope equal the context's.
MatchingOverrides(cfg, context) ==
    {i \in 1..Len(cfg.matrix_overrides) :
        /\ cfg.matrix_overrides[i].environment = context.environment
        /\ cfg.matrix_overrides[i].scope = context.scope}

Min(S) == CHOOSE x \in S : \A y \in S : x <= y

\* SafetyLevel(level_str): the enum constructor raises ValueError on a
\* string that is no member.
SafetyLevelOf(level_str) ==
    IF level_str \in SafetyLevel THEN level_str ELSE "ValueError"

\* DefaultMatrix with Rule 2 not looking at the environment.
DefaultMatrix_anyEnv(context) ==
    IF context.scope = "SOURCE_CODE" /\ context.execution_mode = "DIRECT_APPLY"
        THEN "BLOCKED"
    ELSE IF context.scope = "INFRA" /\ context.execution_mode = "DIRECT_APPLY"
        THEN "SAFE"
    ELSE "REQUIRE_APPROVAL"

\* The default table (Rules 1-3 and the safety net).
DefaultMatrix(context) ==
    IF context.scope = "SOURCE_CODE" /\ context.execution_mode = "DIRECT_APPLY"
        THEN "BLOCKED"
    ELSE IF context.scope = "SOURCE_CODE" /\ context.execution_mode = "AUTO_PR"
        THEN "REQUIRE_APPROVAL"
    ELSE IF context.scope = "INFRA" /\ context.environment = "PROD"
            /\ context.execution_mode = "DIRECT_APPLY"
        THEN "REQUIRE_APPROVAL"
    ELSE IF context.scope = "INFRA" /\ context.environment = "DEV"
            /\ context.execution_mode = "DIRECT_APPLY"
        THEN "SAFE"
    ELSE IF context.scope = "CONFIG"
        THEN "REQUIRE_APPROVAL"
    ELSE "REQUIRE_APPROVAL"

Max(S) == CHOOSE x \in S : \A y \in S : x >= y

\* evaluate_matrix with the last matching override winning.
evaluate_matrix_lastMatch(cfg, context) ==
    LET m == MatchingOverrides(cfg, context) IN
    IF m # {}
        THEN LET rule == cfg.matrix_overrides[Max(m)] IN
             SafetyLevelOf(IF rule.level = "MISSING" THEN "REQUIRE_APPROVAL"
                           ELSE rule.level)
        ELSE DefaultMatrix(context)

evaluate_matrix(cfg, context) ==
    LET m == MatchingOverrides(cfg, context) IN
    IF m # {}
        THEN LET rule == cfg.matrix_overrides[Min(m)] IN
             SafetyLevelOf(IF rule.level = "MISSING" THEN "REQUIRE_APPROVAL"
                           ELSE rule.level)
        ELSE DefaultMatrix(context)

----------------------------------------------------------------------------
(* Exact rational arithmetic on <<numerator, denominator>>, denominator > 0 *)
FracLt(a, b) == a[1] * b[2] < b[1] * a[2]
FracGe(a, b) == ~FracLt(a, b)
FracEq(a, b) == a[1] * b[2] = b[1] * a[2]

----------------------------------------------------------------------------
(* remediation/types.py *)
ActionType == {"COMMAND", "PATCH", "API_CALL", "FILE_EDIT", "XML_EDIT",
               "RUNTIME_OP"}

\* RemediationAction; a field the constructor leaves out is None.
Action(type, command, path, context, replacement, selector, value) ==
    [type |-> type, command |-> command, file_path |-> path,
     original_context |-> context, replacement_text |-> replacement,
     xml_selector |-> selector, xml_value |-> value]

Command(tokens) ==
    Action("COMMAND", tokens, None, NoneText, NoneText, None, None)
RuntimeOp(tokens) ==
    Action("RUNTIME_OP", tokens, None, NoneText, NoneText, None, None)
FileEdit(path, ctx, repl) ==
    Action("FILE_EDIT", <<"edit">>, path, ctx, repl, None, None)
XmlEdit(path, selector, value) ==
    Action("XML_EDIT", <<"edit">>, path, NoneText, NoneText, selector, value)

\* RemediationProposal: plan.title, actions, confidence_score (thousandths)
\* and git_config (None or present).
Proposal(title, actions, confidence_score, git_config) ==
    [title |-> title, actions |-> actions,
     confidence_score |-> confidence_score, git_config |-> git_config]

----------------------------------------------------------------------------
(* remediation/confidence.py: FeedbackStore *)
Signatures == {"T1", "T2"}

Entry(success, total) == [success |-> success, total |-> total]

\* A store (the cache, the file's JSON object) is a function from the
\* signatures it holds to their entries.
EmptyStore == <<>>

\* FeedbackStore._load: a missing file or one json.load fails on gives {}.
load(file) ==
    IF file.status = "ok" THEN file.content ELSE EmptyStore

\* FeedbackStore._save: the dump replaces the file; a failure is swallowed.
save(file, store) ==
    IF file.writable THEN DiskFile("ok", store, TRUE) ELSE file

\* self._cache.get(action_signature, {"success": 0, "total": 0})
GetEntry(store, sig) ==
    IF sig \in DOMAIN store THEN store[sig] ELSE Entry(0, 0)

\* record_feedback that keeps only the entry it wrote
record_feedback_forgetsOthers(store, sig, success) ==
    LET entry == GetEntry(store, sig) IN
    sig :> Entry(IF success THEN entry.success + 1 ELSE entry.success,
                 entry.total + 1)

record_feedback(store, sig, success) ==
    LET entry == GetEntry(store, sig) IN
    (sig :> Entry(IF success THEN entry.success + 1 ELSE entry.success,
                  entry.total + 1)) @@ store

\* get_success_rate asking for more than 3 outcomes.
get_success_rate_strict(store, sig) ==
    IF sig \notin DOMAIN store \/ store[sig].total <= 3
        THEN NoneRate
        ELSE <<store[sig].success, store[sig].total>>

\* None until the signature has 3 recorded outcomes, then success / total.
get_success_rate(store, sig) ==
    IF sig \notin DOMAIN store \/ store[sig].total < 3
        THEN NoneRate
        ELSE <<store[sig].success, store[sig].total>>

----------------------------------------------------------------------------
(* remediation/confidence.py: ConfidenceScorer *)
\* the high-confidence cut at 0.90
HIGH_CONFIDENCE_090 == <<90, 100>>

HIGH_CONFIDENCE_THRESHOLD == <<99, 100>>
LOW_CONFIDENCE_THRESHOLD  == <<80, 100>>
RUNTIME_OP_THRESHOLD      == <<70, 100>>

ConfidenceResult(final_score, decision, reason) ==
    [final_score |-> final_score, decision |-> decision, reason |-> reason]

\* FinalScore with the two weights exchanged.
FinalScore_swapped(raw, history_score) ==
    IF history_score # NoneRate
        THEN <<6 * raw * history_score[2] + 4000 * history_score[1],
               10000 * history_score[2]>>
        ELSE <<raw, 1000>>

\* final_score = raw * 0.4 + history * 0.6 with history, raw without.
FinalScore(raw, history_score) ==
    IF history_score # NoneRate
        THEN <<4 * raw * history_score[2] + 6000 * history_score[1],
               10000 * history_score[2]>>
        ELSE <<raw, 1000>>

has_runtime_op(p) ==
    \E i \in 1..Len(p.actions) : p.actions[i].type = "RUNTIME_OP"

Threshold(p) ==
    IF has_runtime_op(p) THEN RUNTIME_OP_THRESHOLD
    ELSE LOW_CONFIDENCE_THRESHOLD

\* Decide with a strict comparison at the high-confidence cut.
Decide_strictHigh(final_score, history_score, current_threshold) ==
    IF FracLt(final_score, current_threshold)
        THEN ConfidenceResult(final_score, "REQUIRE_APPROVAL",
                              "Low confidence")
    ELSE IF FracLt(HIGH_CONFIDENCE_THRESHOLD, final_score)
        THEN IF history_score = NoneRate
                THEN ConfidenceResult(final_score, "REQUIRE_APPROVAL",
                         "High AI confidence but no historical verification")
                ELSE ConfidenceResult(final_score, "SAFE",
                         "High confidence + Verified history")
    ELSE ConfidenceResult(final_score, "REQUIRE_APPROVAL",
                          "Confidence in medium range")

\* Decide that takes a high score without history as verified.
Decide_noHistoryNeeded(final_score, history_score, current_threshold) ==
    IF FracLt(final_score, current_threshold)
        THEN ConfidenceResult(final_score, "REQUIRE_APPROVAL",
                              "Low confidence")
    ELSE IF FracGe(final_score, HIGH_CONFIDENCE_THRESHOLD)
        THEN ConfidenceResult(final_score, "SAFE",
                              "High confidence + Verified history")
    ELSE ConfidenceResult(final_score, "REQUIRE_APPROVAL",
                          "Confidence in medium range")

Decide(final_score, history_score, current_threshold) ==
    IF FracLt(final_score, current_threshold)
        THEN ConfidenceResult(final_score, "REQUIRE_APPROVAL",
                              "Low confidence")
    ELSE IF FracGe(final_score, HIGH_CONFIDENCE_THRESHOLD)
        THEN IF history_score = NoneRate
                THEN ConfidenceResult(final_score, "REQUIRE_APPROVAL",
                         "High AI confidence but no historical verification")
                ELSE ConfidenceResult(final_score, "SAFE",
                         "High confidence + Verified history")
    ELSE ConfidenceResult(final_score, "REQUIRE_APPROVAL",
                          "Confidence in medium range")

\* ConfidenceScorer.evaluate(proposal, raw_ai_confidence)
evaluate(store, p, raw_ai_confidence) ==
    LET history_score == get_success_rate(store, p.title) IN
    Decide(FinalScore(raw_ai_confidence, history_score), history_score,
           Threshold(p))

----------------------------------------------------------------------------
(* remediation/safety.py: the command classifier *)
SAFE_COMMANDS ==
    {"ls", "grep", "cat", "echo", "pwd",
     "kubectl get", "kubectl describe", "kubectl logs",
     "git status", "git log", "git diff"}

APPROVAL_REQUIRED_COMMANDS ==
    {"kubectl delete", "kubectl scale", "kubectl patch", "kubectl apply",
     "rm", "mv", "cp", "touch", "mkdir",
     "git commit", "git push", "git merge",
     "systemctl restart", "docker stop", "docker restart"}

\* Substring tests of the tokens the model's commands are made of.
TokenHasRedirect(tok) == tok \in {">", "|", ">>"}
TokenHasMkfs(tok)     == tok \in {"mkfs", "mkfs.ext4"}
TokenEndsWithDd(tok)  == tok \in {"dd", "add"}
TokenStartsEtc(tok)   == tok \in {"/etc/passwd", "/etc/hosts"}
TokenEndsRedirect(tok) == tok \in {">", ">>"}

\* consecutive tokens of cmd starting at position i equal pat
TokensAt(cmd, i, pat) ==
    /\ i + Len(pat) - 1 <= Len(cmd)
    /\ \A k \in 1..Len(pat) : cmd[i + k - 1] = pat[k]

\* BLOCKED_PATTERNS, searched in the stripped command string.
SystemBlocked(cmd) ==
    \/ Len(cmd) >= 3 /\ TokensAt(cmd, Len(cmd) - 2, <<"rm", "-rf", "/">>)
    \/ \E i \in 1..Len(cmd) : TokensAt(cmd, i, <<"rm", "-rf", "/*">>)
    \/ \E i \in 1..Len(cmd) - 1 :
          TokenEndsRedirect(cmd[i]) /\ TokenStartsEtc(cmd[i + 1])
    \/ \E i \in 1..Len(cmd) : TokensAt(cmd, i, <<"chmod", "777">>)
    \/ \E i \in 1..Len(cmd) : TokenHasMkfs(cmd[i])
    \/ \E i \in 1..Len(cmd) - 1 : TokenEndsWithDd(cmd[i])
    \/ \E i \in 1..Len(cmd) : cmd[i] = ":(){ :|:& };:"

\* A user pattern is a word, searched in the command, or "(" (no regex).
InvalidRegex(pattern) == pattern = "("
PatternMatches(pattern, cmd) == \E i \in 1..Len(cmd) : cmd[i] = pattern

\* Scan of custom_blocked_patterns: "BLOCKED" at the first match,
\* "re.error" when an invalid pattern is reached first, else "pass".
RECURSIVE UserBlocklist(_, _)
UserBlocklist(patterns, cmd) ==
    IF patterns = <<>> THEN "pass"
    ELSE IF InvalidRegex(Head(patterns)) THEN "re.error"
    ELSE IF PatternMatches(Head(patterns), cmd) THEN "BLOCKED"
    ELSE UserBlocklist(Tail(patterns), cmd)

\* Steps 3-5: whitelists and approval list on base_cmd = split()[0].
ClassifyBase(cfg, cmd) ==
    IF cmd = <<>> THEN "IndexError"
    ELSE LET base_cmd == cmd[1] IN
         IF base_cmd \in cfg.custom_allowed_commands THEN "SAFE"
         ELSE IF base_cmd \in SAFE_COMMANDS
            THEN IF \E i \in 1..Len(cmd) : TokenHasRedirect(cmd[i])
                    THEN "REQUIRE_APPROVAL"
                    ELSE "SAFE"
         ELSE IF base_cmd \in APPROVAL_REQUIRED_COMMANDS
            THEN "REQUIRE_APPROVAL"
         ELSE "REQUIRE_APPROVAL"

\* evaluate_command with the user whitelist asked before the matrix.
evaluate_command_whitelistFirst(cfg, cmd, context) ==
    LET user == UserBlocklist(cfg.custom_blocked_patterns, cmd) IN
    IF user # "pass" THEN user
    ELSE IF SystemBlocked(cmd) THEN "BLOCKED"
    ELSE IF cmd # <<>> /\ cmd[1] \in cfg.custom_allowed_commands THEN "SAFE"
    ELSE LET matrix_decision ==
                IF context = NoContext THEN "SAFE"
                ELSE evaluate_matrix(cfg, context) IN
         IF matrix_decision \in {"BLOCKED", "REQUIRE_APPROVAL", "ValueError"}
            THEN matrix_decision
            ELSE ClassifyBase(cfg, cmd)

\* evaluate_command(command_str, context); NoContext when none is given.
\* The result is a SafetyLevel or the name of the exception raised.
evaluate_command(cfg, cmd, context) ==
    LET user == UserBlocklist(cfg.custom_blocked_patterns, cmd) IN
    IF user # "pass" THEN user
    ELSE IF SystemBlocked(cmd) THEN "BLOCKED"
    ELSE LET matrix_decision ==
                IF context = NoContext THEN "SAFE"
                ELSE evaluate_matrix(cfg, context) IN
         IF matrix_decision \in {"BLOCKED", "REQUIRE_APPROVAL", "ValueError"}
            THEN matrix_decision
            ELSE ClassifyBase(cfg, cmd)

----------------------------------------------------------------------------
(* remediation/patcher.py: CodePatcher; a text is a sequence of characters *)
PatchResult(success, message, content) ==
    [success |-> success, message |-> message, content |-> content]

MatchAt(text, i, sub) ==
    /\ i + Len(sub) - 1 <= Len(text)
    /\ \A k \in 1..Len(sub) : text[i + k - 1] = sub[k]

\* sub in text
Contains(text, sub) == \E i \in 1..Len(text) + 1 : MatchAt(text, i, sub)

\* text.count(sub): occurrences found left to right without overlap
RECURSIVE CountFrom(_, _, _)
CountFrom(text, sub, i) ==
    IF i + Len(sub) - 1 > Len(text) THEN 0
    ELSE IF MatchAt(text, i, sub)
        THEN 1 + CountFrom(text, sub, i + Len(sub))
        ELSE CountFrom(text, sub, i + 1)

Count(text, sub) ==
    IF sub = <<>> THEN Len(text) + 1 ELSE CountFrom(text, sub, 1)

\* text.replace(sub, repl): every occurrence found that way is replaced
RECURSIVE ReplaceFrom(_, _, _, _)
ReplaceFrom(text, sub, repl, i) ==
    IF i > Len(text) THEN <<>>
    ELSE IF MatchAt(text, i, sub)
        THEN repl \o ReplaceFrom(text, sub, repl, i + Len(sub))
        ELSE <<text[i]>> \o ReplaceFrom(text, sub, repl, i + 1)

RECURSIVE Interleave(_, _)
Interleave(text, repl) ==
    IF text = <<>> THEN repl
    ELSE repl \o <<Head(text)>> \o Interleave(Tail(text), repl)

\* Replace that stops at the end of the replacement.
Replace_dropsRest(text, sub, repl) ==
    LET i == CHOOSE k \in 1..Len(text) + 1 : MatchAt(text, k, sub) IN
    SubSeq(text, 1, i - 1) \o repl

Replace(text, sub, repl) ==
    IF sub = <<>> THEN Interleave(text, repl)
    ELSE ReplaceFrom(text, sub, repl, 1)

IsWhitespace(c) == c \in {" ", "\n", "\t"}

\* " ".join(text.split())
RECURSIVE NormalizeFrom(_, _, _)
NormalizeFrom(text, started, gap) ==
    IF text = <<>> THEN <<>>
    ELSE IF IsWhitespace(Head(text))
        THEN NormalizeFrom(Tail(text), started, started)
        ELSE (IF gap THEN <<" ">> ELSE <<>>) \o <<Head(text)>>
             \o NormalizeFrom(Tail(text), TRUE, FALSE)

Normalize(text) == NormalizeFrom(text, FALSE, FALSE)

\* A file: whether it exists, whether it parses as XML, and its content
\* (a text, or the blocks of an XML document).
File(exists, wellformed, content) ==
    [exists |-> exists, wellformed |-> wellformed, content |-> content]
MissingFile == File(FALSE, FALSE, <<>>)
TextFile(text) == File(TRUE, FALSE, text)
XmlFile(blocks) == File(TRUE, TRUE, blocks)

\* apply_patch that writes the replacement before it reports an ambiguity.
apply_patch_writesFirst(file, original_context, replacement_text) ==
    LET content == file.content IN
    IF ~file.exists
        THEN PatchResult(FALSE, "File not found", content)
    ELSE IF ~Contains(content, original_context)
        THEN IF Contains(Normalize(content), Normalize(original_context))
                THEN PatchResult(FALSE, "Context mismatch", content)
                ELSE PatchResult(FALSE, "Context not found", content)
    ELSE IF Count(content, original_context) > 1
        THEN PatchResult(FALSE, "Ambiguous context",
                         Replace(content, original_context, replacement_text))
    ELSE PatchResult(TRUE, "Patch applied successfully",
                     Replace(content, original_context, replacement_text))

\* CodePatcher.apply_patch(file_path, original_context, replacement_text),
\* given the file at file_path; content of the result is what the file
\* holds afterwards.
apply_patch(file, original_context, replacement_text) ==
    LET content == file.content IN
    IF ~file.exists
        THEN PatchResult(FALSE, "File not found", content)
    ELSE IF ~Contains(content, original_context)
        THEN IF Contains(Normalize(content), Normalize(original_context))
                THEN PatchResult(FALSE, "Context mismatch", content)
                ELSE PatchResult(FALSE, "Context not found", content)
    ELSE IF Count(content, original_context) > 1
        THEN PatchResult(FALSE, "Ambiguous context", content)
    ELSE PatchResult(TRUE, "Patch applied successfully",
                     Replace(content, original_context, replacement_text))

----------------------------------------------------------------------------
(* remediation/xml_patcher.py: XmlPatcher.  A document is the sequence, in  *)
(* document order, of its elements that hold children: each with its tag   *)
(* and the text of its artifactId child (None when it has none).           *)
Block(tag, artifactId) == [tag |-> tag, artifactId |-> artifactId]

\* tag.endswith(name): the bare name or the name in a namespace
TagEndsWith(tag, name) == tag = name \/ tag = "{ns}" \o name

XmlPatchResult(success, message, content) ==
    [success |-> success, message |-> message, content |-> content]

RemoveAt(seq, i) == SubSeq(seq, 1, i - 1) \o SubSeq(seq, i + 1, Len(seq))

\* remove_block_by_child_tag that does not look at the child's text.
remove_block_anyChild(file, parent_tag, child_value) ==
    LET content == file.content IN
    IF ~file.exists
        THEN XmlPatchResult(FALSE, "Error patching XML", content)
    ELSE IF ~file.wellformed
        THEN XmlPatchResult(FALSE, "XML Parse Error", content)
    ELSE LET found == {i \in 1..Len(content) :
                          TagEndsWith(content[i].tag, parent_tag)} IN
         IF found = {}
            THEN XmlPatchResult(FALSE, "Could not find", content)
            ELSE XmlPatchResult(TRUE, "Successfully removed",
                                RemoveAt(content, Min(found)))

remove_block_by_child_tag(file, parent_tag, child_value) ==
    LET content == file.content IN
    IF ~file.exists
        THEN XmlPatchResult(FALSE, "Error patching XML", content)
    ELSE IF ~file.wellformed
        THEN XmlPatchResult(FALSE, "XML Parse Error", content)
    ELSE LET found == {i \in 1..Len(content) :
                          /\ TagEndsWith(content[i].tag, parent_tag)
                          /\ content[i].artifactId = child_value} IN
         IF found = {}
            THEN XmlPatchResult(FALSE, "Could not find", content)
            ELSE XmlPatchResult(TRUE, "Successfully removed",
                                RemoveAt(content, Min(found)))

remove_dependency(file, artifact_id) ==
    remove_block_by_child_tag(file, "dependency", artifact_id)

remove_plugin(file, artifact_id) ==
    remove_block_by_child_tag(file, "plugin", artifact_id)

----------------------------------------------------------------------------
(* ai/agent.py: RemediationAgent._execute_actions, one action of the loop *)

\* Python truth value of an optional string: None and "" are false.
Falsy(x)     == x = None \/ x = ""
FalsyText(x) == x = NoneText \/ x = <<>>

FileAt(fs, path) == IF path \in DOMAIN fs THEN fs[path] ELSE MissingFile

\* the patchers write only after a successful change to an existing file
WriteFile(fs, path, content) ==
    IF path \in DOMAIN fs /\ fs[path].exists
        THEN [fs EXCEPT ![path].content = content] ELSE fs

IsPom(path) == path = "pom.xml"

\* agent.py never imports os, so os.path.dirname in the mvn step raises
\* NameError inside the try block, before mvn is started.
OsModuleBound == FALSE

\* RemediationAction.to_string followed by the git identity injection.
CommandString(a, git_config) ==
    LET cmd_str == a.command IN
    IF git_config # None /\ Len(cmd_str) >= 2 /\ cmd_str[1] = "git"
        THEN <<"git", "-c", "user.name", "-c", "user.email">> \o Tail(cmd_str)
        ELSE cmd_str

\* What one pass of the loop body does.
Handled(fs, events, failed, raised) ==
    [files |-> fs, events |-> events, failed |-> failed, raised |-> raised]

HandleFileEdit(fs, a) ==
    IF Falsy(a.file_path) \/ FalsyText(a.original_context)
          \/ FalsyText(a.replacement_text)
        THEN Handled(fs, <<"Attempting Smart Patch",
                           "FAILED: Malformed FILE_EDIT">>, TRUE, None)
    ELSE LET patch_result == apply_patch(FileAt(fs, a.file_path),
                                 a.original_context, a.replacement_text) IN
         IF patch_result.success
            THEN Handled(WriteFile(fs, a.file_path, patch_result.content),
                         <<"Attempting Smart Patch",
                           "SUCCESS: Patch applied">>, FALSE, None)
            ELSE Handled(fs, <<"Attempting Smart Patch",
                               "FAILED: " \o patch_result.message>>,
                         TRUE, None)

\* xml_valid: what validate_xml answers; mvn_rc: what mvn validate returns.
HandleXmlEdit(fs, a, xml_valid, mvn_rc) ==
    IF Falsy(a.file_path) \/ Falsy(a.xml_selector) \/ Falsy(a.xml_value)
        THEN Handled(fs, <<"Attempting Structured XML Edit",
                           "FAILED: Malformed XML_EDIT">>, TRUE, None)
    ELSE LET file == FileAt(fs, a.file_path)
             res == IF a.xml_selector = "plugin"
                       THEN remove_plugin(file, a.xml_value)
                       ELSE remove_dependency(file, a.xml_value)
             written == WriteFile(fs, a.file_path, res.content) IN
         IF a.xml_selector \notin {"dependency", "plugin"}
            THEN Handled(written, <<"Attempting Structured XML Edit",
                                    "FAILED: Unknown selector">>, TRUE, None)
         ELSE IF ~res.success
            THEN Handled(fs, <<"Attempting Structured XML Edit",
                               "FAILED: " \o res.message>>, TRUE, None)
         ELSE IF ~xml_valid
            THEN Handled(written, <<"Attempting Structured XML Edit",
                                    "SUCCESS: XML Patch applied",
                                    "VALIDATION FAILED: XML structure invalid">>,
                         TRUE, None)
         ELSE IF ~IsPom(a.file_path)
            THEN Handled(written, <<"Attempting Structured XML Edit",
                                    "SUCCESS: XML Patch applied">>, FALSE, None)
         ELSE IF ~OsModuleBound
            THEN Handled(written, <<"Attempting Structured XML Edit",
                                    "SUCCESS: XML Patch applied",
                                    "Running 'mvn validate'",
                                    "VALIDATION ERROR: Could not run mvn">>,
                         FALSE, None)
         ELSE IF mvn_rc # 0
            THEN Handled(written, <<"Attempting Structured XML Edit",
                                    "SUCCESS: XML Patch applied",
                                    "Running 'mvn validate'",
                                    "VALIDATION FAILED: mvn validate">>,
                         TRUE, None)
         ELSE Handled(written, <<"Attempting Structured XML Edit",
                                 "SUCCESS: XML Patch applied",
                                 "Running 'mvn validate'",
                                 "VALIDATION SUCCESS">>, FALSE, None)

\* HandleCommand that does not count a blocked command as a failure.
HandleCommand_blockedPasses(cfg, fs, a, git_config) ==
    LET cmd_str == CommandString(a, git_config)
        level   == evaluate_command(cfg, cmd_str, NoContext) IN
    IF level \notin SafetyLevel
        THEN Handled(fs, <<"Executing">>, FALSE, level)
    ELSE IF level = "BLOCKED"
        THEN Handled(fs, <<"Executing", "RUNTIME BLOCKED">>, FALSE, None)
    ELSE Handled(fs, <<"Executing", "Ran">>, FALSE, None)

\* The COMMAND branch, also taken by every type without a branch of its own.
HandleCommand(cfg, fs, a, git_config) ==
    LET cmd_str == CommandString(a, git_config)
        level   == evaluate_command(cfg, cmd_str, NoContext) IN
    IF level \notin SafetyLevel
        THEN Handled(fs, <<"Executing">>, FALSE, level)
    ELSE IF level = "BLOCKED"
        THEN Handled(fs, <<"Executing", "RUNTIME BLOCKED">>, TRUE, None)
    ELSE Handled(fs, <<"Executing", "Ran">>, FALSE, None)

HandleAction(cfg, fs, a, git_config, xml_valid, mvn_rc) ==
    IF a.type = "FILE_EDIT" THEN HandleFileEdit(fs, a)
    ELSE IF a.type = "XML_EDIT" THEN HandleXmlEdit(fs, a, xml_valid, mvn_rc)
    ELSE IF a.type = "RUNTIME_OP"
        THEN Handled(fs, <<"Executing Runtime Operation">>, FALSE, None)
    ELSE HandleCommand(cfg, fs, a, git_config)

----------------------------------------------------------------------------
(* ai/error_correlator.py: ErrorCorrelator.cluster_by_time.  A timestamp  *)
(* string is given by its form and the whole seconds it spells out: plain *)
(* ("2024-01-01T00:00:03"), with a Z suffix, with a UTC offset other than *)
(* +00:00 (offset in seconds), empty, or garbage.  The text of a pattern   *)
(* and its errorClass are sequences of characters; <<>> stands for an      *)
(* errorClass of None, which the code treats like "".                      *)
Timestamp(form, t, offset) == [form |-> form, t |-> t, offset |-> offset]

LogPattern(pattern, firstOccurrence, errorClass) ==
    [pattern |-> pattern, firstOccurrence |-> firstOccurrence,
     errorClass |-> errorClass]

\* a datetime: naive, or aware (then t is the UTC instant); NoTime is None
DateTime(aware, t) == [parsed |-> TRUE, aware |-> aware, t |-> t]
NoTime == [parsed |-> FALSE, aware |-> FALSE, t |-> 0]

\* datetime.min
datetime_min == DateTime(FALSE, -1)

\* _parse_timestamp: Z and +00:00 are cut off, which leaves a naive
\* datetime; another offset gives an aware one; "" and text fromisoformat
\* rejects give None.
parse_timestamp(ts) ==
    IF ts.form \in {"plain", "Z"} THEN DateTime(FALSE, ts.t)
    ELSE IF ts.form = "offset"
        THEN IF ts.offset = 0 THEN DateTime(FALSE, ts.t)
             ELSE DateTime(TRUE, ts.t - ts.offset)
    ELSE NoTime

\* key=lambda p: _parse_timestamp(p.firstOccurrence) or datetime.min
SortKey(p) ==
    LET pattern_time == parse_timestamp(p.firstOccurrence) IN
    IF pattern_time.parsed THEN pattern_time ELSE datetime_min

\* comparing an aware with a naive datetime raises TypeError; sorted
\* compares every element with one of the other kind when both occur
SortRaises(patterns) ==
    \E i, j \in 1..Len(patterns) : SortKey(patterns[i]).aware # SortKey(patterns[j]).aware

\* sorted(patterns, key=...): stable, ascending
RECURSIVE SortedByTime(_)
SortedByTime(patterns) ==
    IF patterns = <<>> THEN <<>>
    ELSE LET n    == Len(patterns)
             x    == patterns[n]
             done == SortedByTime(SubSeq(patterns, 1, n - 1))
             k    == Cardinality({i \in 1..Len(done) : SortKey(done[i]).t <= SortKey(x).t}) IN
         SubSeq(done, 1, k) \o <<x>> \o SubSeq(done, k + 1, Len(done))

\* root_cause is <<>> for None, else the one pattern
ErrorCluster(cluster_id, timestamp, patterns) ==
    [cluster_id |-> cluster_id, timestamp |-> timestamp, patterns |-> patterns,
     root_causes |-> <<>>, root_cause |-> <<>>, effects |-> <<>>]

\* the loop with a window that ends just before window_seconds
RECURSIVE ClusterLoop_strictWindow(_, _, _, _, _, _)
ClusterLoop_strictWindow(sorted_patterns, i, clusters, current, last_time, window_seconds) ==
    IF i > Len(sorted_patterns) THEN clusters
    ELSE LET pattern      == sorted_patterns[i]
             pattern_time == parse_timestamp(pattern.firstOccurrence)
             fresh        == ErrorCluster(Len(clusters), pattern.firstOccurrence, <<pattern>>) IN
         IF ~pattern_time.parsed
            THEN ClusterLoop_strictWindow(sorted_patterns, i + 1, Append(clusters, fresh),
                                          current, last_time, window_seconds)
         ELSE IF current # 0 /\ last_time.parsed
                  /\ pattern_time.t - last_time.t < window_seconds
            THEN ClusterLoop_strictWindow(sorted_patterns, i + 1,
                             [clusters EXCEPT ![current].patterns = Append(@, pattern)],
                             current, pattern_time, window_seconds)
         ELSE ClusterLoop_strictWindow(sorted_patterns, i + 1, Append(clusters, fresh),
                                       Len(clusters) + 1, pattern_time, window_seconds)

\* the for loop over sorted_patterns from index i on; current is the index
\* in clusters of current_cluster (0 for None), last_time may be NoTime
RECURSIVE ClusterLoop(_, _, _, _, _, _)
ClusterLoop(sorted_patterns, i, clusters, current, last_time, window_seconds) ==
    IF i > Len(sorted_patterns) THEN clusters
    ELSE LET pattern      == sorted_patterns[i]
             pattern_time == parse_timestamp(pattern.firstOccurrence)
             fresh        == ErrorCluster(Len(clusters), pattern.firstOccurrence, <<pattern>>) IN
         IF ~pattern_time.parsed
            THEN ClusterLoop(sorted_patterns, i + 1, Append(clusters, fresh),
                             current, last_time, window_seconds)
         ELSE IF current # 0 /\ last_time.parsed
                  /\ pattern_time.t - last_time.t <= window_seconds
            THEN ClusterLoop(sorted_patterns, i + 1,
                             [clusters EXCEPT ![current].patterns = Append(@, pattern)],
                             current, pattern_time, window_seconds)
         ELSE ClusterLoop(sorted_patterns, i + 1, Append(clusters, fresh),
                          Len(clusters) + 1, pattern_time, window_seconds)

\* what a call of cluster_by_time gives: the clusters, or the exception
ClusterResult(raised, clusters) == [raised |-> raised, clusters |-> clusters]

cluster_by_time(patterns, window_seconds) ==
    IF patterns = <<>> THEN ClusterResult(None, <<>>)
    ELSE IF SortRaises(patterns) THEN ClusterResult("TypeError", <<>>)
    ELSE ClusterResult(None, ClusterLoop(SortedByTime(patterns), 1, <<>>, 0,
                                         NoTime, window_seconds))

----------------------------------------------------------------------------
(* ai/error_correlator.py: ErrorCorrelator.rank_by_dependency *)

\* str.lower() on one character
Lower(c) ==
    CASE c = "A" -> "a" [] c = "B" -> "b" [] c = "C" -> "c" [] c = "D" -> "d"
      [] c = "E" -> "e" [] c = "F" -> "f" [] c = "G" -> "g" [] c = "H" -> "h"
      [] c = "I" -> "i" [] c = "J" -> "j" [] c = "K" -> "k" [] c = "L" -> "l"
      [] c = "M" -> "m" [] c = "N" -> "n" [] c = "O" -> "o" [] c = "P" -> "p"
      [] c = "Q" -> "q" [] c = "R" -> "r" [] c = "S" -> "s" [] c = "T" -> "t"
      [] c = "U" -> "u" [] c = "V" -> "v" [] c = "W" -> "w" [] c = "X" -> "x"
      [] c = "Y" -> "y" [] c = "Z" -> "z" [] OTHER -> c

LowerText(text) == [i \in 1..Len(text) |-> Lower(text[i])]

\* _get_severity_score for a pattern that is not None
get_severity_score(pattern) ==
    LET text == IF pattern.errorClass # <<>>
                    THEN LowerText(pattern.pattern) \o <<" ">> \o LowerText(pattern.errorClass)
                    ELSE LowerText(pattern.pattern)
        any(words) == \E w \in words : Contains(text, w) IN
    IF any({<<"f", "a", "t", "a", "l">>, <<"p", "a", "n", "i", "c">>, <<"c", "r", "i", "t", "i", "c", "a", "l">>, <<"e", "m", "e", "r", "g">>}) THEN 100
    ELSE IF any({<<"e", "r", "r", "o", "r">>, <<"e", "x", "c", "e", "p", "t", "i", "o", "n">>, <<"f", "a", "i", "l">>, <<"c", "r", "a", "s", "h">>}) THEN 80
    ELSE IF any({<<"w", "a", "r", "n", "i", "n", "g">>, <<"w", "a", "r", "n">>}) THEN 50
    ELSE 10

\* dep_priority: the chain reversed, each service (lower-cased) with its
\* index; a service named twice keeps the later index
dep_priority(dependency_graph) ==
    LET n == Len(dependency_graph)
        reversed == [i \in 1..n |-> LowerText(dependency_graph[n + 1 - i])] IN
    [svc \in {reversed[i] : i \in 1..n} |->
        Max({i - 1 : i \in {j \in 1..n : reversed[j] = svc}})]

\* _get_dependency_score
get_dependency_score(pattern, priority) ==
    LET pattern_text == LowerText(pattern.pattern) IN
    Max({0} \cup {priority[svc] : svc \in {k \in DOMAIN priority : Contains(pattern_text, k)}})

\* a RankedCause, without its reason text
RankedCause(pattern, rank, severity_score, dependency_score) ==
    [pattern |-> pattern, rank |-> rank, severity_score |-> severity_score,
     dependency_score |-> dependency_score]

\* a key that looks at the dependency score first
KeyGreater_dependencyFirst(a, b) ==
    \/ a.dependency_score > b.dependency_score
    \/ a.dependency_score = b.dependency_score /\ a.severity_score > b.severity_score

\* the key (x[1], x[2]) of a is greater than that of b
KeyGreater(a, b) ==
    \/ a.severity_score > b.severity_score
    \/ a.severity_score = b.severity_score /\ a.dependency_score > b.dependency_score

\* scored_patterns.sort(key=..., reverse=True): descending, equal keys keep
\* their order
RECURSIVE SortedByScore(_)
SortedByScore(scored) ==
    IF scored = <<>> THEN <<>>
    ELSE LET n    == Len(scored)
             x    == scored[n]
             done == SortedByScore(SubSeq(scored, 1, n - 1))
             k    == Cardinality({i \in 1..Len(done) : ~KeyGreater(x, done[i])}) IN
         SubSeq(done, 1, k) \o <<x>> \o SubSeq(done, k + 1, Len(done))

\* seq[:n] of Python: a negative n counts from the end
SliceTo(seq, n) ==
    IF n >= 0 THEN SubSeq(seq, 1, Min({n, Len(seq)}))
    ELSE SubSeq(seq, 1, Max({0, Len(seq) + n}))

\* the candidates, in the order of cluster.patterns
RECURSIVE ScoredPatterns(_, _)
ScoredPatterns(patterns, priority) ==
    IF patterns = <<>> THEN <<>>
    ELSE LET pattern   == Head(patterns)
             severity  == get_severity_score(pattern)
             dep_score == get_dependency_score(pattern, priority)
             rest      == ScoredPatterns(Tail(patterns), priority) IN
         IF severity >= 50 \/ dep_score > 0
            THEN <<RankedCause(pattern, 0, severity, dep_score)>> \o rest
            ELSE rest

\* rank_by_dependency(cluster, dependency_graph, max_root_causes): the
\* cluster as the call leaves it
rank_by_dependency(cluster, dependency_graph, max_root_causes) ==
    IF cluster.patterns = <<>> THEN cluster
    ELSE LET scored_patterns == SortedByScore(ScoredPatterns(cluster.patterns, dep_priority(dependency_graph)))
             top == SliceTo(scored_patterns, max_root_causes)
             root_causes == [rank \in 1..Len(top) |-> [top[rank] EXCEPT !.rank = rank]]
             root_cause_patterns == {root_causes[i].pattern.pattern : i \in 1..Len(root_causes)} IN
         [cluster EXCEPT
            !.root_causes = root_causes,
            !.root_cause = IF root_causes # <<>> THEN <<root_causes[1].pattern>> ELSE <<>>,
            !.effects = SelectSeq(cluster.patterns, LAMBDA p : p.pattern \notin root_cause_patterns)]

----------------------------------------------------------------------------
(* Inputs *)
\* raw AI confidences, in thousandths
RawScores == {600, 700, 750, 800, 950, 975, 990, 1000}

TextApp == <<"A", "\n", "B", "\n", "C", "\n">>
Pom     == <<Block("dependency", "junit"), Block("{ns}plugin", "surefire")>>

InitialFiles ==
    [p \in {"app.py", "pom.xml", "web.xml"} |->
        CASE p = "app.py"  -> TextFile(TextApp)
          [] p = "pom.xml" -> XmlFile(Pom)
          [] p = "web.xml" -> XmlFile(Pom)]

\* The actions proposals are made of.
ActionPool ==
    {Command(<<"git", "status">>),
     Command(<<"rm", "-rf", "/">>),
     Command(<<>>),
     RuntimeOp(<<"kubectl", "delete", "pod">>),
     FileEdit("app.py", <<"B", "\n">>, <<"X", "\n">>),
     FileEdit("app.py", <<>>, <<"X">>),
     XmlEdit("pom.xml", "dependency", "junit"),
     XmlEdit("web.xml", "module", "junit")}

\* The last result: of ConfidenceScorer.evaluate (outcome "scored") or of
\* RemediationAgent.run ("running" inside the loop, then "returned", or the
\* exception that ended it).
Result(confidence_result, history, executed, success, outcome) ==
    [confidence_result |-> confidence_result, history |-> history,
     executed |-> executed, success |-> success, outcome |-> outcome]

NoResult ==
    Result(ConfidenceResult(<<0, 1>>, None, None), NoneRate, FALSE, FALSE,
           None)

NoProposal == Proposal(None, <<>>, 0, None)

\* recorded outcomes of a store, per signature
Outcomes(store) == [sig \in Signatures |-> GetEntry(store, sig)]

InitWith(file, fs) ==
    /\ config = SafetyConfiguration
    /\ mxCall = [called |-> FALSE, context |-> NoContext, result |-> None]
    /\ disk = file
    /\ cache = load(file)
    /\ recorded = IF file.status = "ok" THEN Outcomes(file.content)
                  ELSE Outcomes(EmptyStore)
    /\ proposal = NoProposal
    /\ ret = NoResult
    /\ pc = "idle"
    /\ idx = 0
    /\ all_success = TRUE
    /\ logs = <<>>
    /\ runCtx = NoContext
    /\ files = fs
    /\ call = NoCall

----------------------------------------------------------------------------
(* Operations *)

\* SafetyPolicy.load_config(path)
LoadConfig(file) ==
    /\ pc = "idle"
    /\ config = SafetyConfiguration
    /\ ~mxCall.called
    /\ call = NoCall
    /\ config' = ConfigLoader_load(file)
    /\ mxCall' = [called |-> FALSE, context |-> NoContext, result |-> None]
    /\ UNCHANGED <<storeVars, agentVars, call>>

\* SafetyPolicy.evaluate_matrix(context)
EvaluateMatrix(context) ==
    /\ pc = "idle"
    /\ mxCall' = [called |-> TRUE, context |-> context,
                  result |-> evaluate_matrix(config, context)]
    /\ UNCHANGED <<config, storeVars, agentVars, call>>

\* SafetyPolicy.evaluate_command(command_str, context)
EvaluateCommand(cmd, context) ==
    /\ pc = "idle"
    /\ call' = [op |-> "evaluate_command", command |-> cmd,
                context |-> context,
                result |-> evaluate_command(config, cmd, context)]
    /\ pc' = "done"
    /\ UNCHANGED <<config, mxCall, storeVars, proposal, ret, idx,
                   all_success, logs, runCtx, files>>

\* CodePatcher.apply_patch(file_path, original_context, replacement_text),
\* called on its own or, with the same arguments, right after a call.
ApplyPatch(file_path, original_context, replacement_text) ==
    LET again  == pc = "done"
        result == apply_patch(FileAt(files, file_path), original_context,
                              replacement_text) IN
    /\ \/ pc = "idle"
       \/ /\ pc = "done"
          /\ call.op = "apply_patch"
          /\ ~call.again
          /\ call.file_path = file_path
          /\ call.original_context = original_context
          /\ call.replacement_text = replacement_text
    /\ Len(result.content) <= MaxText
    /\ files' = WriteFile(files, file_path, result.content)
    /\ call' = [op |-> "apply_patch", file_path |-> file_path,
                original_context |-> original_context,
                replacement_text |-> replacement_text,
                before |-> FileAt(files, file_path),
                success |-> result.success, message |-> result.message,
                again |-> again,
                first_success |-> again /\ call.success]
    /\ pc' = "done"
    /\ UNCHANGED <<config, mxCall, storeVars, proposal, ret, idx,
                   all_success, logs, runCtx>>

\* what a call of the markup patcher leaves behind
XmlCall(op, file_path, artifact_id, res) ==
    /\ pc = "idle"
    /\ files' = WriteFile(files, file_path, res.content)
    /\ call' = [op |-> op, file_path |-> file_path, artifact_id |-> artifact_id,
                before |-> FileAt(files, file_path),
                success |-> res.success, message |-> res.message]
    /\ pc' = "done"
    /\ UNCHANGED <<config, mxCall, storeVars, proposal, ret, idx,
                   all_success, logs, runCtx>>

\* XmlPatcher.remove_dependency(file_path, artifact_id)
RemoveDependency(file_path, artifact_id) ==
    XmlCall("remove_dependency", file_path, artifact_id, remove_dependency(FileAt(files, file_path), artifact_id))

\* XmlPatcher.remove_plugin(file_path, artifact_id)
RemovePlugin(file_path, artifact_id) ==
    XmlCall("remove_plugin", file_path, artifact_id, remove_plugin(FileAt(files, file_path), artifact_id))

\* ErrorCorrelator.cluster_by_time(patterns, window_seconds)
ClusterByTime(patterns, window_seconds) ==
    /\ pc = "idle"
    /\ call' = [op |-> "cluster_by_time", patterns |-> patterns,
                window_seconds |-> window_seconds,
                result |-> cluster_by_time(patterns, window_seconds)]
    /\ pc' = "done"
    /\ UNCHANGED <<config, mxCall, storeVars, proposal, ret, idx,
                   all_success, logs, runCtx, files>>

\* ErrorCorrelator.rank_by_dependency(cluster, dependency_graph,
\* max_root_causes) on a cluster that holds the given patterns
RankByDependency(patterns, dependency_graph, max_root_causes) ==
    LET cluster == ErrorCluster(0, Timestamp("plain", 0, 0), patterns) IN
    /\ pc = "idle"
    /\ call' = [op |-> "rank_by_dependency", patterns |-> patterns,
                dependency_graph |-> dependency_graph,
                max_root_causes |-> max_root_causes,
                result |-> rank_by_dependency(cluster, dependency_graph, max_root_causes)]
    /\ pc' = "done"
    /\ UNCHANGED <<config, mxCall, storeVars, proposal, ret, idx,
                   all_success, logs, runCtx, files>>

\* FeedbackStore.record_feedback(signature, success)
RecordFeedback(sig, success) ==
    /\ pc = "idle"
    /\ GetEntry(cache, sig).total < MaxTotal
    /\ cache' = record_feedback(cache, sig, success)
    /\ disk' = save(disk, record_feedback(cache, sig, success))
    /\ recorded' = [recorded EXCEPT
                      ![sig].total = @ + 1,
                      ![sig].success = IF success THEN @ + 1 ELSE @]
    /\ UNCHANGED <<config, mxCall, agentVars, call>>

\* ConfidenceScorer.evaluate(proposal, proposal.confidence_score)
ScoreProposal(p) ==
    /\ pc = "idle"
    /\ proposal' = p
    /\ ret' = Result(evaluate(cache, p, p.confidence_score),
                     get_success_rate(cache, p.title), FALSE, FALSE, "scored")
    /\ pc' = "done"
    /\ UNCHANGED <<config, mxCall, storeVars, idx, all_success, logs,
                   runCtx, files, call>>

\* run that executes the actions whatever the decision is
Run_executesAnyDecision(p, context) ==
    /\ pc = "idle"
    /\ GetEntry(cache, p.title).total + 2 <= MaxTotal
    /\ proposal' = p
    /\ runCtx' = context
    /\ pc' = "exec"
    /\ idx' = 1
    /\ all_success' = TRUE
    /\ logs' = <<>>
    /\ ret' = Result(evaluate(cache, p, p.confidence_score),
                     get_success_rate(cache, p.title), FALSE, FALSE, "running")
    /\ UNCHANGED <<config, mxCall, storeVars, files, call>>

\* RemediationAgent.run(proposal), up to the call of _execute_actions;
\* context is the SafetyContext the proposal would be applied in, which run
\* is not given and does not read.
Run(p, context) ==
    LET result == evaluate(cache, p, p.confidence_score)
        history == get_success_rate(cache, p.title) IN
    /\ pc = "idle"
    /\ result.decision = "SAFE" => GetEntry(cache, p.title).total + 2 <= MaxTotal
    /\ proposal' = p
    /\ runCtx' = context
    /\ IF result.decision = "SAFE"
          THEN /\ pc' = "exec"
               /\ idx' = 1
               /\ all_success' = TRUE
               /\ logs' = <<>>
               /\ ret' = Result(result, history, FALSE, FALSE, "running")
          ELSE /\ pc' = "done"
               /\ UNCHANGED <<idx, all_success>>
               /\ logs' = IF result.decision = "REQUIRE_APPROVAL"
                             THEN <<<<0, "Execution blocked: Human approval required">>>>
                             ELSE <<<<0, "Execution blocked: Dangerous commands detected">>>>
               /\ ret' = Result(result, history, FALSE, FALSE, "returned")
    /\ UNCHANGED <<config, mxCall, storeVars, files, call>>

\* One pass of the loop of _execute_actions: action idx of the proposal.
\* An exception leaves the loop and run: nothing is returned or recorded.
\* xml_valid and mvn_rc are what validate_xml and mvn validate answer for
\* the files as this action leaves them; only an XML_EDIT can ask them.
ExecStep(xml_valid, mvn_rc) ==
    /\ pc = "exec"
    /\ idx <= Len(proposal.actions)
    /\ proposal.actions[idx].type # "XML_EDIT" => (xml_valid /\ mvn_rc = 0)
    /\ call' = [op |-> "validators", idx |-> idx, xml_valid |-> xml_valid,
                mvn_rc |-> mvn_rc,
                before |-> FileAt(files, proposal.actions[idx].file_path)]
    /\ LET h == HandleAction(config, files, proposal.actions[idx],
                             proposal.git_config, xml_valid, mvn_rc) IN
       /\ files' = h.files
       /\ logs' = logs \o [k \in 1..Len(h.events) |-> <<idx, h.events[k]>>]
       /\ IF h.raised # None
             THEN /\ pc' = "done"
                  /\ ret' = [ret EXCEPT !.outcome = h.raised]
                  /\ UNCHANGED <<idx, all_success>>
             ELSE /\ idx' = idx + 1
                  /\ all_success' = (all_success /\ ~h.failed)
                  /\ UNCHANGED <<pc, ret>>
    /\ UNCHANGED <<config, mxCall, storeVars, proposal, runCtx>>

\* run after _execute_actions returned: the feedback is recorded (lines 71
\* and 74 both call record_feedback) and the AgentResult is returned.
FinishRun ==
    /\ pc = "exec"
    /\ idx > Len(proposal.actions)
    /\ LET once  == record_feedback(cache, proposal.title, all_success)
           twice == record_feedback(once, proposal.title, all_success) IN
       /\ cache' = twice
       /\ disk' = save(save(disk, once), twice)
    /\ recorded' = [recorded EXCEPT
                      ![proposal.title].total = @ + 2,
                      ![proposal.title].success =
                          IF all_success THEN @ + 2 ELSE @]
    /\ logs' = Append(logs, <<0, "Recorded feedback">>)
    /\ ret' = [ret EXCEPT !.executed = TRUE, !.success = all_success,
                          !.outcome = "returned"]
    /\ pc' = "done"
    /\ UNCHANGED <<config, mxCall, proposal, idx, all_success, runCtx, files,
                   call>>

\* The caller is done with the result of the last call.
Reset ==
    /\ pc = "done"
    /\ pc' = "idle"
    /\ proposal' = NoProposal
    /\ ret' = NoResult
    /\ idx' = 0
    /\ all_success' = TRUE
    /\ logs' = <<>>
    /\ runCtx' = NoContext
    /\ call' = NoCall
    /\ UNCHANGED <<config, mxCall, storeVars, files>>

----------------------------------------------------------------------------
(* Specifications *)

\* The safety matrix under the configurations load_config can load.
InitMatrix == InitWith(DiskFile("missing", EmptyStore, TRUE), InitialFiles)

NextMatrix ==
    \/ ~mxCall.called /\ config = SafetyConfiguration
          /\ \E file \in ConfigFiles : LoadConfig(file)
    \/ \E context \in SafetyContext : EvaluateMatrix(context)

SpecMatrix == InitMatrix /\ [][NextMatrix]_vars

\* The command classifier under the configurations load_config can load.
UserPatterns == {"grep", "status", "("}

CommandOverrides ==
    {<<>>,
     <<[environment |-> "DEV", scope |-> "INFRA", level |-> "BLOCKED"]>>,
     <<[environment |-> "DEV", scope |-> "INFRA", level |-> "ALLOW"]>>,
     <<[environment |-> "PROD", scope |-> "INFRA", level |-> "SAFE"]>>}

CommandConfigFiles ==
    {DiskFile("missing", SafetyConfiguration, TRUE)} \cup
    {DiskFile("ok", c, TRUE) : c \in
        [custom_allowed_commands : {{}, {"grep", "my_custom_tool"}},
         custom_blocked_patterns : SeqsUpTo(UserPatterns, MaxPatterns),
         matrix_overrides        : CommandOverrides]}

\* command strings, as their words
Commands ==
    {<<>>,
     <<"ls", "-la">>,
     <<"ls", "|", "wc">>,
     <<"cat", "app.log", ">", "out.txt">>,
     <<"grep", "error", "app.log">>,
     <<"kubectl", "get", "pods">>,
     <<"git", "status">>,
     <<"git", "push">>,
     <<"my_custom_tool", "run">>,
     <<"rm", "-rf", "/">>,
     <<"rm", "tmp.txt">>,
     <<"terraform", "apply">>}

InitCommand == InitWith(DiskFile("missing", EmptyStore, TRUE), InitialFiles)

NextCommand ==
    \/ \E file \in CommandConfigFiles : LoadConfig(file)
    \/ pc = "idle" /\ \E cmd \in Commands, context \in SafetyContext \cup {NoContext} :
                        EvaluateCommand(cmd, context)
    \/ Reset

SpecCommand == InitCommand /\ [][NextCommand]_vars

\* The text patcher on one file, and on a path that does not exist.
PatchChars == {"A", " "}

PatchContexts == SeqsUpTo(PatchChars, MaxText - 1)

PatchReplacements == SeqsUpTo(PatchChars, MaxText - 2)

InitPatcher ==
    \E text \in SeqsUpTo(PatchChars, MaxText) :
        InitWith(DiskFile("missing", EmptyStore, TRUE),
                 [p \in {"app.py"} |-> TextFile(text)])

NextPatcher ==
    \/ pc = "idle" /\ \E file_path \in {"app.py", "gone.py"}, original_context \in PatchContexts, replacement_text \in PatchReplacements :
                        ApplyPatch(file_path, original_context, replacement_text)
    \/ pc = "done" /\ call.op = "apply_patch"
          /\ ApplyPatch(call.file_path, call.original_context, call.replacement_text)
    \/ Reset

SpecPatcher == InitPatcher /\ [][NextPatcher]_vars

\* The markup patcher on a document, a file that is no XML and a path that
\* does not exist.
BlockPool ==
    {Block("dependency", "junit"), Block("{ns}dependency", "junit"),
     Block("dependency", "guava"), Block("dependency", None),
     Block("plugin", "junit"), Block("{ns}plugin", "surefire")}

InitXml ==
    \E blocks \in SeqsUpTo(BlockPool, MaxBlocks) :
        InitWith(DiskFile("missing", EmptyStore, TRUE),
                 [p \in {"pom.xml", "app.py"} |->
                     IF p = "pom.xml" THEN XmlFile(blocks) ELSE TextFile(TextApp)])

NextXml ==
    \/ pc = "idle" /\ \E file_path \in {"pom.xml", "app.py", "gone.xml"}, artifact_id \in {"junit", "surefire"} :
                        RemoveDependency(file_path, artifact_id)
    \/ pc = "idle" /\ \E file_path \in {"pom.xml", "app.py", "gone.xml"}, artifact_id \in {"junit", "surefire"} :
                        RemovePlugin(file_path, artifact_id)
    \/ Reset

SpecXml == InitXml /\ [][NextXml]_vars

\* The clusterer on lists of up to MaxLogs patterns.
Timestamps ==
    {Timestamp("plain", 0, 0), Timestamp("plain", 2, 0), Timestamp("plain", 5, 0),
     Timestamp("Z", 3, 0), Timestamp("offset", 4, 0), Timestamp("offset", 6, 3),
     Timestamp("offset", 9, 3), Timestamp("empty", 0, 0),
     Timestamp("garbage", 0, 0)}

LogPatterns ==
    {LogPattern(<<"d", "b", " ", "e", "r", "r", "o", "r">>, ts, <<>>) : ts \in Timestamps} \cup
    {LogPattern(<<"w", "a", "r", "n">>, Timestamp("plain", 2, 0), <<>>),
     LogPattern(<<"w", "a", "r", "n">>, Timestamp("garbage", 0, 0), <<>>)}

NextCluster ==
    \/ pc = "idle" /\ \E patterns \in SeqsUpTo(LogPatterns, MaxLogs), window_seconds \in {1, 2} :
                        ClusterByTime(patterns, window_seconds)
    \/ Reset

SpecCluster == InitMatrix /\ [][NextCluster]_vars

\* The ranker on clusters of up to MaxLogs patterns, with no dependency
\* chain or the chain frontend, gateway, db.
RankPatterns ==
    {LogPattern(<<"e", "r", "r", "o", "r", " ", "d", "b">>, Timestamp("plain", 0, 0), <<>>),
     LogPattern(<<"e", "r", "r", "o", "r", " ", "d", "b">>, Timestamp("plain", 2, 0), <<>>),
     LogPattern(<<"e", "r", "r", "o", "r", " ", "f", "r", "o", "n", "t", "e", "n", "d">>, Timestamp("plain", 0, 0), <<>>),
     LogPattern(<<"O", "O", "M", " ", "F", "A", "T", "A", "L">>, Timestamp("plain", 0, 0), <<>>),
     LogPattern(<<"t", "i", "m", "e", "o", "u", "t">>, Timestamp("plain", 0, 0), <<"W", "a", "r", "n", "i", "n", "g">>),
     LogPattern(<<"i", "n", "f", "o", " ", "g", "a", "t", "e", "w", "a", "y">>, Timestamp("plain", 0, 0), <<>>)}

DependencyChain == <<<<"f", "r", "o", "n", "t", "e", "n", "d">>, <<"g", "a", "t", "e", "w", "a", "y">>, <<"d", "b">>>>

NextRank ==
    \/ pc = "idle" /\ \E patterns \in SeqsUpTo(RankPatterns, MaxLogs), dependency_graph \in {<<>>, DependencyChain}, max_root_causes \in {-1, 0, 1, 2, 5} :
                        RankByDependency(patterns, dependency_graph, max_root_causes)
    \/ Reset

SpecRank == InitMatrix /\ [][NextRank]_vars

\* The feedback store and the scorer, called directly.
StoreFiles ==
    {DiskFile("missing", EmptyStore, TRUE),
     DiskFile("missing", EmptyStore, FALSE),
     DiskFile("corrupt", "T1" :> Entry(3, 3), TRUE),
     DiskFile("ok", "T1" :> Entry(3, 3), TRUE),
     DiskFile("ok", ("T1" :> Entry(2, 3)) @@ ("T2" :> Entry(0, 1)), TRUE)}

ScorerProposals ==
    {Proposal(t, acts, raw, None) :
        t \in Signatures,
        acts \in {<<>>, <<Command(<<"ls">>)>>,
                  <<RuntimeOp(<<"kubectl", "delete", "pod">>)>>,
                  <<Command(<<"ls">>), RuntimeOp(<<"kubectl", "delete", "pod">>)>>},
        raw \in RawScores}

InitScorer == \E file \in StoreFiles : InitWith(file, InitialFiles)

NextScorer ==
    \/ \E sig \in Signatures, success \in BOOLEAN : RecordFeedback(sig, success)
    \/ pc = "idle" /\ \E p \in ScorerProposals : ScoreProposal(p)
    \/ Reset

SpecScorer == InitScorer /\ [][NextScorer]_vars

\* The agent: run is the only writer of its store.
AgentStoreFiles ==
    {DiskFile("missing", EmptyStore, TRUE),
     DiskFile("corrupt", "T1" :> Entry(3, 3), TRUE),
     DiskFile("ok", ("T1" :> Entry(3, 3)) @@ ("T2" :> Entry(3, 4)), TRUE)}

AgentConfigFiles ==
    {DiskFile("missing", SafetyConfiguration, TRUE),
     DiskFile("ok", [custom_allowed_commands |-> {"my_custom_tool"},
                     custom_blocked_patterns |-> <<"status">>,
                     matrix_overrides |-> <<>>], TRUE)}

AgentContexts ==
    {[environment |-> "DEV", scope |-> "INFRA", execution_mode |-> "DIRECT_APPLY"],
     [environment |-> "DEV", scope |-> "SOURCE_CODE", execution_mode |-> "DIRECT_APPLY"]}

HasGitCommand(acts) ==
    \E i \in 1..Len(acts) : Len(acts[i].command) >= 1 /\ acts[i].command[1] = "git"

\* The proposals run is called with: every batch with the high score, the
\* batches of at most one action also with the low one; a git identity is
\* attached to batches that hold a git command.
AgentProposals ==
    {Proposal(t, acts, 1000, None) :
        t \in Signatures, acts \in SeqsUpTo(ActionPool, MaxActions)} \cup
    {Proposal(t, acts, 600, None) :
        t \in Signatures, acts \in SeqsUpTo(ActionPool, 1)} \cup
    {Proposal(t, acts, 1000, "GitConfig") :
        t \in Signatures,
        acts \in {a \in SeqsUpTo(ActionPool, MaxActions) : HasGitCommand(a)}}

Init == \E file \in AgentStoreFiles : InitWith(file, InitialFiles)

Next ==
    \/ \E file \in AgentConfigFiles : LoadConfig(file)
    \/ pc = "idle" /\ \E p \in AgentProposals, context \in AgentContexts :
                        Run(p, context)
    \/ \E xml_valid \in BOOLEAN, mvn_rc \in {0, 1} : ExecStep(xml_valid, mvn_rc)
    \/ FinishRun
    \/ Reset

Spec == Init /\ [][Next]_vars

----------------------------------------------------------------------------
(* Claims about the safety matrix (SpecMatrix) *)

DevInfraDirect ==
    [environment |-> "DEV", scope |-> "INFRA", execution_mode |-> "DIRECT_APPLY"]

\* C1: with no matrix overrides, evaluate_matrix is BLOCKED for SOURCE_CODE
\* with DIRECT_APPLY in any environment, SAFE for exactly (DEV, INFRA,
\* DIRECT_APPLY), and REQUIRE_APPROVAL for every other context.
C1_DefaultTable ==
    (mxCall.called /\ config.matrix_overrides = <<>>) =>
        mxCall.result =
            (IF mxCall.context.scope = "SOURCE_CODE"
                  /\ mxCall.context.execution_mode = "DIRECT_APPLY"
                THEN "BLOCKED"
             ELSE IF mxCall.context = DevInfraDirect THEN "SAFE"
             ELSE "REQUIRE_APPROVAL")

C1_Witness ==
    /\ mxCall.called
    /\ config.matrix_overrides = <<>>
    /\ mxCall.context = [environment |-> "PROD", scope |-> "INFRA",
                         execution_mode |-> "DIRECT_APPLY"]
    /\ mxCall.result = "REQUIRE_APPROVAL"

OverrideMatches(rule, context) ==
    rule.environment = context.environment /\ rule.scope = context.scope

\* C2: when an override has the context's environment and scope,
\* evaluate_matrix returns the level of the first such override in list
\* order, whatever the execution mode and the default table say.
C2_FirstOverrideWins ==
    mxCall.called =>
        \A i \in 1..Len(config.matrix_overrides) :
            LET rule == config.matrix_overrides[i] IN
            (/\ OverrideMatches(rule, mxCall.context)
             /\ \A j \in 1..(i - 1) :
                   ~OverrideMatches(config.matrix_overrides[j], mxCall.context)
             /\ rule.level \in SafetyLevel)
            => mxCall.result = rule.level

C2_Witness ==
    /\ mxCall.called
    /\ mxCall.context = DevInfraDirect
    /\ Len(config.matrix_overrides) = 2
    /\ OverrideMatches(config.matrix_overrides[1], mxCall.context)
    /\ OverrideMatches(config.matrix_overrides[2], mxCall.context)
    /\ config.matrix_overrides[1].level = "REQUIRE_APPROVAL"
    /\ config.matrix_overrides[2].level = "BLOCKED"
    /\ mxCall.result = "REQUIRE_APPROVAL"

----------------------------------------------------------------------------
(* Claims about the scorer and the feedback store (SpecScorer) *)

Scored == pc = "done" /\ ret.outcome = "scored"

HasHistory == ret.history # NoneRate

\* final_score as a multiple of 1/100
ScoreIs(hundredths) == FracEq(ret.confidence_result.final_score, <<hundredths, 100>>)

RECURSIVE Gcd(_, _)
Gcd(a, b) == IF b = 0 THEN a ELSE Gcd(b, a % b)

\* a fraction in lowest terms
Lowest(frac) == <<frac[1] \div Gcd(frac[1], frac[2]), frac[2] \div Gcd(frac[1], frac[2])>>

\* C4: finalScore is 0.4*raw + 0.6*historyRate when the store has a history
\* rate for plan.title and raw otherwise; so raw 0.99 without history gives
\* REQUIRE_APPROVAL, raw 0.99 with history rate 1.0 gives SAFE and raw 0.60
\* with history rate 1.0 gives REQUIRE_APPROVAL.
C4_FinalScoreBlend ==
    Scored =>
        LET raw   == proposal.confidence_score
            final == ret.confidence_result.final_score
            rate  == ret.history IN
        /\ HasHistory =>
              Lowest(final)
                  = Lowest(<<4 * raw * rate[2] + 6000 * rate[1], 10000 * rate[2]>>)
        /\ ~HasHistory => Lowest(final) = Lowest(<<raw, 1000>>)
        /\ (raw = 990 /\ ~HasHistory)
              => ret.confidence_result.decision = "REQUIRE_APPROVAL"
        /\ (raw = 990 /\ HasHistory /\ rate[1] = rate[2])
              => ret.confidence_result.decision = "SAFE"
        /\ (raw = 600 /\ HasHistory /\ rate[1] = rate[2])
              => ret.confidence_result.decision = "REQUIRE_APPROVAL"

C4_Witness ==
    /\ Scored
    /\ proposal.confidence_score = 990
    /\ HasHistory
    /\ ret.history[1] = ret.history[2]
    /\ ret.history[2] >= 3
    /\ ret.confidence_result.decision = "SAFE"

OnlyCommands ==
    /\ proposal.actions # <<>>
    /\ \A i \in 1..Len(proposal.actions) : proposal.actions[i].type = "COMMAND"

C7_RateAfterThreeOutcomes ==
    \A sig \in Signatures :
        LET rate == get_success_rate(cache, sig) IN
        /\ recorded[sig].total < 3 => rate = NoneRate
        /\ recorded[sig].total >= 3 =>
              /\ rate # NoneRate
              /\ FracEq(rate, <<recorded[sig].success, recorded[sig].total>>)

\* a store whose file is missing and cannot be written: three outcomes
\* recorded for T1, two for T2
C7_Witness ==
    /\ disk.status = "missing"
    /\ recorded["T1"] = Entry(2, 3)
    /\ recorded["T2"] = Entry(1, 2)
    /\ get_success_rate(cache, "T1") = <<2, 3>>
    /\ get_success_rate(cache, "T2") = NoneRate

----------------------------------------------------------------------------
(* Claims about the agent (Spec) *)

\* run was called and the scorer answered SAFE
Approved == pc \in {"exec", "done"} /\ ret.confidence_result.decision = "SAFE"

\* the log line each branch of the loop opens with
StartEvents ==
    {"Attempting Smart Patch", "Attempting Structured XML Edit",
     "Executing Runtime Operation", "Executing"}

\* the log lines that do not clear all_success
PassEvents ==
    StartEvents \cup
        {"SUCCESS: Patch applied", "SUCCESS: XML Patch applied",
         "Running 'mvn validate'", "VALIDATION SUCCESS",
         "VALIDATION ERROR: Could not run mvn", "Ran"}

IsStart(entry) == entry[1] >= 1 /\ entry[2] \in StartEvents

Starts == SelectSeq(logs, IsStart)

Logged(i, event) == \E k \in 1..Len(logs) : logs[k] = <<i, event>>

ActionFailed(i) ==
    \E k \in 1..Len(logs) : logs[k][1] = i /\ logs[k][2] \notin PassEvents

\* C6 as claimed: a run that executes its proposal records exactly one
\* outcome under plan.title: totalCount grows by 1, successCount by 1 if all
\* actions succeeded and by 0 otherwise.
C6_OneOutcomePerRun ==
    [][(pc = "exec" /\ pc' = "done" /\ ret'.executed) =>
          LET before == GetEntry(cache, proposal.title)
              after  == GetEntry(cache', proposal.title) IN
          /\ after.total = before.total + 1
          /\ after.success = before.success + (IF ret'.success THEN 1 ELSE 0)]_vars

\* C8 as claimed: once the scorer answered SAFE, the executor handles every
\* action of the proposal exactly once and in submission order, whatever
\* happened to the earlier ones, and run returns success if and only if no
\* action failed.
C8_EveryActionHandledOnce ==
    (pc = "done" /\ ret.confidence_result.decision = "SAFE") =>
        /\ Len(Starts) = Len(proposal.actions)
        /\ \A i \in 1..Len(Starts) : Starts[i][1] = i
        /\ ret.executed
        /\ ret.success <=> ~\E i \in 1..Len(proposal.actions) : ActionFailed(i)

\* what the command-safety classifier answers for action i of the proposal
Rating(i) ==
    evaluate_command(config, CommandString(proposal.actions[i], proposal.git_config),
                     NoContext)

TakesCommandBranch(i) ==
    proposal.actions[i].type \notin {"FILE_EDIT", "XML_EDIT", "RUNTIME_OP"}

\* C9: a COMMAND action the classifier rates BLOCKED is never run; when the
\* loop reaches it, it is logged as blocked, the overall result is false
\* from then on, and the next action of the batch is still taken up.
C9_BlockedCommandSkipped ==
    Approved =>
        \A i \in 1..Len(proposal.actions) :
            (TakesCommandBranch(i) /\ Rating(i) = "BLOCKED") =>
                /\ ~Logged(i, "Ran")
                /\ Logged(i, "Executing") =>
                      /\ Logged(i, "RUNTIME BLOCKED")
                      /\ ~all_success
                      /\ ret.outcome = "returned" => (ret.executed /\ ~ret.success)
                      /\ i < Len(proposal.actions) =>
                            \/ pc = "exec" /\ idx = i + 1
                            \/ \E k \in 1..Len(logs) : IsStart(logs[k]) /\ logs[k][1] = i + 1

\* a blocked command first, then a second action that was handled, and the
\* run returned false
C9_Witness ==
    /\ pc = "done"
    /\ ret.outcome = "returned"
    /\ Len(proposal.actions) = 2
    /\ TakesCommandBranch(1)
    /\ Rating(1) = "BLOCKED"
    /\ Logged(1, "RUNTIME BLOCKED")
    /\ Logged(2, "SUCCESS: Patch applied")
    /\ ret.executed
    /\ ~ret.success

\* C10 as claimed: when the matrix level for the proposal's context is
\* BLOCKED or REQUIRE_APPROVAL, run executes none of the proposal's actions,
\* whatever the confidence score and the history.
C10_MatrixVetoStopsRun ==
    (pc \in {"exec", "done"} /\ runCtx # NoContext
         /\ evaluate_matrix(config, runCtx) \in {"BLOCKED", "REQUIRE_APPROVAL"})
      => /\ pc # "exec"
         /\ ~ret.executed
         /\ Starts = <<>>

----------------------------------------------------------------------------
(* Claims about the command classifier (SpecCommand) *)

Classified == call.op = "evaluate_command"

\* some user blocked pattern is found in the command
MatchesUserPattern(cfg, cmd) ==
    \E i \in 1..Len(cfg.custom_blocked_patterns) :
        /\ ~InvalidRegex(cfg.custom_blocked_patterns[i])
        /\ PatternMatches(cfg.custom_blocked_patterns[i], cmd)

\* C11 as claimed: evaluate_command returns BLOCKED for every command that
\* matches a user blocked pattern, also when its base command is on the
\* user or the system whitelist and when the attached context is SAFE in
\* the matrix.
C11_UserBlocklistWins ==
    (Classified /\ MatchesUserPattern(config, call.command))
        => call.result = "BLOCKED"

\* C12: with a context attached, a level returned by evaluate_command is
\* never less strict than the level evaluate_matrix returns for the context
\* (BLOCKED > REQUIRE_APPROVAL > SAFE), also for a command on the user
\* whitelist; SAFE is returned only when the matrix returns SAFE.
C12_NeverLaxerThanMatrix ==
    (Classified /\ call.context # NoContext /\ call.result \in SafetyLevel) =>
        LET matrix_decision == evaluate_matrix(config, call.context) IN
        matrix_decision \in SafetyLevel =>
            /\ Strictness(call.result) >= Strictness(matrix_decision)
            /\ matrix_decision = "BLOCKED" => call.result = "BLOCKED"
            /\ call.result = "SAFE" => matrix_decision = "SAFE"

\* a command on the user whitelist, matching no blocked pattern, under a
\* context the matrix rates REQUIRE_APPROVAL
C12_Witness ==
    /\ Classified
    /\ call.command = <<"my_custom_tool", "run">>
    /\ "my_custom_tool" \in config.custom_allowed_commands
    /\ call.context # NoContext
    /\ evaluate_matrix(config, call.context) = "REQUIRE_APPROVAL"
    /\ call.result = "REQUIRE_APPROVAL"

\* the entries of SAFE_COMMANDS, word by word
SafeEntryWords ==
    {<<"ls">>, <<"grep">>, <<"cat">>, <<"echo">>, <<"pwd">>,
     <<"kubectl", "get">>, <<"kubectl", "describe">>, <<"kubectl", "logs">>,
     <<"git", "status">>, <<"git", "log">>, <<"git", "diff">>}

StartsWithSafeEntry(cmd) == \E e \in SafeEntryWords : TokensAt(cmd, 1, e)

HasRedirectOrPipe(cmd) == \E i \in 1..Len(cmd) : TokenHasRedirect(cmd[i])

\* C13 as claimed: with no context and the default configuration, a command
\* that starts with an entry of the system whitelist and matches no blocked
\* pattern is SAFE without '>' or '|' and REQUIRE_APPROVAL with one; a
\* command on no list is REQUIRE_APPROVAL.
C13_SystemWhitelist ==
    (Classified /\ call.context = NoContext /\ config = SafetyConfiguration
         /\ call.command # <<>> /\ ~SystemBlocked(call.command)) =>
        /\ (StartsWithSafeEntry(call.command) /\ ~HasRedirectOrPipe(call.command))
              => call.result = "SAFE"
        /\ (StartsWithSafeEntry(call.command) /\ HasRedirectOrPipe(call.command))
              => call.result = "REQUIRE_APPROVAL"
        /\ ~StartsWithSafeEntry(call.command) => call.result = "REQUIRE_APPROVAL"

----------------------------------------------------------------------------
(* Claims about the text patcher (SpecPatcher) *)

Patched == call.op = "apply_patch"

\* the file as the call left it
FileNow == FileAt(files, call.file_path)

\* the positions of the file content at which original_context occurs
Positions == {i \in 1..Len(call.before.content) + 1 : MatchAt(call.before.content, i, call.original_context)}

\* C14 as claimed: when the first apply_patch of a patch succeeds, the same
\* patch applied again right afterwards fails with the context-not-found
\* result and leaves the file as the first application left it.
C14_SecondApplicationFails ==
    (Patched /\ call.again /\ call.first_success) =>
        /\ ~call.success
        /\ call.message = "Context not found"
        /\ FileNow = call.before

\* C15 as claimed: when original_context occurs at more than one position
\* of the content, overlapping occurrences included, apply_patch fails with
\* the ambiguity result and replaces nothing; it succeeds only with exactly
\* one position.
C15_AmbiguousContextFails ==
    (Patched /\ call.before.exists) =>
        /\ Cardinality(Positions) > 1 =>
              /\ ~call.success
              /\ call.message = "Ambiguous context"
              /\ FileNow = call.before
        /\ call.success => Cardinality(Positions) = 1

\* C16: when original_context occurs at exactly one position, apply_patch
\* succeeds and the new content is the text before the occurrence, then
\* replacement_text, then the text after it.
C16_SingleReplacement ==
    (Patched /\ call.before.exists /\ Cardinality(Positions) = 1) =>
        LET i    == CHOOSE k \in Positions : TRUE
            text == call.before.content IN
        /\ call.success
        /\ FileNow.exists
        /\ FileNow.content =
              SubSeq(text, 1, i - 1) \o call.replacement_text
                  \o SubSeq(text, i + Len(call.original_context), Len(text))

\* one occurrence, with text on both sides of it
C16_Witness ==
    /\ Patched
    /\ call.success
    /\ call.before.content = <<"A", " ", "A">>
    /\ call.original_context = <<" ">>
    /\ call.replacement_text = <<" ", " ">>
    /\ FileNow.content = <<"A", " ", " ", "A">>

\* C17: an apply_patch that fails because the file is missing, the context
\* is not found, the context differs only in whitespace, or the context is
\* ambiguous leaves the file as it was.
C17_FailureLeavesFile ==
    (Patched /\ ~call.success) =>
        /\ call.message \in {"File not found", "Context not found",
                             "Context mismatch", "Ambiguous context"}
        /\ FileNow = call.before

\* an ambiguous context: two occurrences, nothing replaced
C17_Witness ==
    /\ Patched
    /\ ~call.success
    /\ call.message = "Ambiguous context"
    /\ call.before.content = <<"A", " ", "A">>
    /\ call.original_context = <<"A">>
    /\ call.replacement_text = <<" ">>
    /\ FileNow.content = <<"A", " ", "A">>

----------------------------------------------------------------------------
(* Claims about the markup patcher (SpecXml) *)

XmlPatched == call.op \in {"remove_dependency", "remove_plugin"}

ParentTag == IF call.op = "remove_plugin" THEN "plugin" ELSE "dependency"

\* the elements of the document whose tag matches parentTag and whose
\* artifactId child has the text asked for
MatchingBlocks ==
    {i \in 1..Len(call.before.content) :
        /\ TagEndsWith(call.before.content[i].tag, ParentTag)
        /\ call.before.content[i].artifactId = call.artifact_id}

\* C18: when no element matching parentTag has a child childTag with the
\* text childValue, the markup patcher returns a failure and the file is
\* the same before and after the call.
C18_NotFoundLeavesFile ==
    (XmlPatched /\ call.before.exists /\ call.before.wellformed
         /\ MatchingBlocks = {}) =>
        /\ ~call.success
        /\ call.message = "Could not find"
        /\ FileAt(files, call.file_path) = call.before

\* a dependency with another artifactId and a plugin with the artifactId
\* asked for: remove_dependency finds nothing
C18_Witness ==
    /\ call.op = "remove_dependency"
    /\ call.artifact_id = "junit"
    /\ call.before.content = <<Block("dependency", "guava"), Block("plugin", "junit")>>
    /\ ~call.success
    /\ FileAt(files, "pom.xml").content = call.before.content

----------------------------------------------------------------------------
(* Claims about the XML_EDIT branch of the executor (Spec) *)

\* the loop has just handled action i, an XML_EDIT whose mutation succeeded
XmlEditApplied(i) ==
    /\ Approved
    /\ call.op = "validators"
    /\ call.idx = i
    /\ proposal.actions[i].type = "XML_EDIT"
    /\ Logged(i, "SUCCESS: XML Patch applied")

\* C19 as claimed: for an XML_EDIT whose mutation succeeded, a failure of
\* the structural validation, or of mvn validate when the target is a
\* pom.xml, makes the action count as failed, and the mutation written to
\* the file stays.
C19_ValidationFailureFailsAction ==
    \A i \in 1..Len(proposal.actions) :
        (/\ XmlEditApplied(i)
         /\ \/ ~call.xml_valid
            \/ IsPom(proposal.actions[i].file_path) /\ call.mvn_rc # 0)
        => /\ ~all_success
           /\ ret.outcome = "returned" => ~ret.success
           /\ FileAt(files, proposal.actions[i].file_path) # call.before

----------------------------------------------------------------------------
(* Claims about the clusterer (SpecCluster) *)

Clustered == call.op = "cluster_by_time"

\* how often x occurs in a list
Occurrences(list, x) == Cardinality({i \in 1..Len(list) : list[i] = x})

\* the pattern lists of the clusters, one after the other
RECURSIVE ClusterPatterns(_)
ClusterPatterns(clusters) ==
    IF clusters = <<>> THEN <<>>
    ELSE Head(clusters).patterns \o ClusterPatterns(Tail(clusters))

\* C20 as claimed: cluster_by_time produces a partition of its input, for
\* every list of patterns with parsable and unparsable timestamps mixed:
\* every input pattern is in exactly one output cluster, as often as it was
\* given, and no cluster holds a pattern that was not in the input.
C20_ClustersPartitionInput ==
    Clustered =>
        /\ call.result.raised = None
        /\ \A x \in LogPatterns :
              Occurrences(ClusterPatterns(call.result.clusters), x)
                  = Occurrences(call.patterns, x)
        /\ \A k \in 1..Len(call.result.clusters) :
              call.result.clusters[k].patterns # <<>>

\* the clusters of a returned call, and the time a pattern's firstSeen parses to
Clusters == call.result.clusters

TimeOf(p) == parse_timestamp(p.firstOccurrence)

Returned == Clustered /\ call.result.raised = None

\* the clusters that start with a pattern whose timestamp parses
TimedClusters == SelectSeq(Clusters, LAMBDA c : TimeOf(c.patterns[1]).parsed)

\* C21: in the output of cluster_by_time, two patterns with parsable
\* timestamps that are adjacent in time order are in the same cluster if and
\* only if the later one is at most windowSeconds after the earlier one:
\* inside a cluster every pattern is at most windowSeconds after the one
\* before it (a gap equal to windowSeconds keeps the cluster), and a cluster
\* starts more than windowSeconds after the last pattern of the timed
\* cluster before it.
C21_WindowDecidesCluster ==
    Returned =>
        /\ \A c \in 1..Len(TimedClusters) :
              \A k \in 1..(Len(TimedClusters[c].patterns) - 1) :
                 LET earlier == TimeOf(TimedClusters[c].patterns[k])
                     later   == TimeOf(TimedClusters[c].patterns[k + 1]) IN
                 /\ earlier.parsed /\ later.parsed
                 /\ later.t - earlier.t >= 0
                 /\ later.t - earlier.t <= call.window_seconds
        /\ \A c \in 1..(Len(TimedClusters) - 1) :
              LET before == TimedClusters[c].patterns
                  last   == TimeOf(before[Len(before)])
                  first  == TimeOf(TimedClusters[c + 1].patterns[1]) IN
              first.t - last.t > call.window_seconds

\* a gap equal to the window kept a cluster, a larger one started the next
C21_Witness ==
    /\ Returned
    /\ call.window_seconds = 2
    /\ Len(Clusters) = 2
    /\ Len(Clusters[1].patterns) = 2
    /\ TimeOf(Clusters[1].patterns[1]).t = 0
    /\ TimeOf(Clusters[1].patterns[2]).t = 2
    /\ TimeOf(Clusters[2].patterns[1]).t = 5

\* C22 as claimed: patterns whose firstSeen cannot be parsed come after all
\* patterns with a parsable timestamp, each in a cluster of its own, and no
\* cluster holds both kinds.
C22_UnparsableLast ==
    Returned =>
        /\ \A c \in 1..Len(Clusters) :
              \/ \A k \in 1..Len(Clusters[c].patterns) : TimeOf(Clusters[c].patterns[k]).parsed
              \/ Len(Clusters[c].patterns) = 1
        /\ \A c, d \in 1..Len(Clusters) :
              (/\ ~TimeOf(Clusters[c].patterns[1]).parsed
               /\ TimeOf(Clusters[d].patterns[1]).parsed) => d < c

----------------------------------------------------------------------------
(* Claims about the ranker (SpecRank) *)

Ranked == call.op = "rank_by_dependency"

RootCauses == call.result.root_causes

\* the patterns of rankedCauses, in rank order
CausePatterns == [i \in 1..Len(RootCauses) |-> RootCauses[i].pattern]

\* C23 as claimed: after rank_by_dependency the patterns of rankedCauses and
\* the patterns of effects are disjoint and together are exactly the
\* patterns of the cluster: every pattern of the cluster is in one of the
\* two lists, as often as the cluster holds it.
C23_CausesAndEffectsPartition ==
    Ranked =>
        \A x \in RankPatterns :
            Occurrences(CausePatterns, x) + Occurrences(call.result.effects, x)
                = Occurrences(call.patterns, x)

\* the text of a pattern mentions a service
Mentions(p, svc) == Contains(LowerText(p.pattern), svc)

\* p is a ranked cause and stands before every entry of q
RankedAbove(p, q) ==
    \E i \in 1..Len(RootCauses) :
        /\ RootCauses[i].pattern = p
        /\ \A j \in 1..Len(RootCauses) : RootCauses[j].pattern = q => i < j

\* C24 as claimed: with the chain frontend, gateway, db, a pattern that
\* mentions db is ranked above a pattern of equal severity in the same
\* cluster that mentions only frontend.
C24_DbOutranksFrontend ==
    (Ranked /\ call.dependency_graph = DependencyChain /\ call.max_root_causes = 5) =>
        \A i, j \in 1..Len(call.patterns) :
            LET p == call.patterns[i]
                q == call.patterns[j] IN
            (/\ Mentions(p, <<"d", "b">>)
             /\ Mentions(q, <<"f", "r", "o", "n", "t", "e", "n", "d">>) /\ ~Mentions(q, <<"g", "a", "t", "e", "w", "a", "y">>) /\ ~Mentions(q, <<"d", "b">>)
             /\ get_severity_score(p) = get_severity_score(q))
                => RankedAbove(p, q)

\* the scores of a pattern of the ranked cluster
ScoreOf(p) ==
    RankedCause(p, 0, get_severity_score(p),
                get_dependency_score(p, dep_priority(call.dependency_graph)))

\* a pattern with these scores is a candidate
IsCandidate(scored) == scored.severity_score >= 50 \/ scored.dependency_score > 0

\* C25: for a count maxRootCauses >= 0, rankedCauses are candidates of the
\* cluster (severity >= 50 or dependency score > 0) with their own scores,
\* in descending order of (severityScore, dependencyScore), as many as
\* there are candidates but at most maxRootCauses, none left out that
\* sorts before the last one kept, with ranks 1, 2, ..., k; and the rank-1
\* cause has the highest severity of the cluster.
C25_RankedCausesAreTopCandidates ==
    (Ranked /\ call.max_root_causes >= 0) =>
        LET scores     == [k \in 1..Len(call.patterns) |-> ScoreOf(call.patterns[k])]
            candidates == {k \in 1..Len(call.patterns) : IsCandidate(scores[k])}
            causes     == CausePatterns IN
        /\ Len(RootCauses) = Min({call.max_root_causes, Cardinality(candidates)})
        /\ \A i \in 1..Len(RootCauses) :
              /\ RootCauses[i].rank = i
              /\ IsCandidate(RootCauses[i])
              /\ \E k \in candidates : RootCauses[i] = [scores[k] EXCEPT !.rank = i]
              /\ Occurrences(causes, causes[i]) <= Occurrences(call.patterns, causes[i])
        /\ \A i, j \in 1..Len(RootCauses) :
              i < j => ~KeyGreater(RootCauses[j], RootCauses[i])
        /\ \A k \in candidates :
              Occurrences(causes, call.patterns[k]) < Occurrences(call.patterns, call.patterns[k])
                 => /\ RootCauses # <<>> => ~KeyGreater(scores[k], RootCauses[Len(RootCauses)])
                    /\ RootCauses = <<>> => call.max_root_causes = 0
        /\ RootCauses # <<>> =>
              \A k \in 1..Len(call.patterns) :
                 scores[k].severity_score <= RootCauses[1].severity_score

\* three candidates given in ascending order of severity, cut to two
C25_Witness ==
    /\ Ranked
    /\ call.max_root_causes = 2
    /\ Len(call.patterns) = 3
    /\ \A k \in 1..3 : IsCandidate(ScoreOf(call.patterns[k]))
    /\ get_severity_score(call.patterns[1]) = 50
    /\ get_severity_score(call.patterns[2]) = 80
    /\ get_severity_score(call.patterns[3]) = 100
    /\ Len(RootCauses) = 2
    /\ RootCauses[1].pattern = call.patterns[3]
    /\ RootCauses[2].pattern = call.patterns[2]
    /\ RootCauses[1].rank = 1 /\ RootCauses[2].rank = 2
    /\ call.result.effects = <<call.patterns[1]>>

----------------------------------------------------------------------------
(* Claims about exceptions (SpecCommand) *)

\* C26 as claimed: the safety functions return a value and never raise,
\* whatever the input and the loaded configuration: every call of
\* evaluate_command gives a SafetyLevel, also for an empty or
\* whitespace-only command string, a matching override whose level is
\* missing or no SafetyLevel, and a blocked pattern that is no valid regex.
C26_NeverRaises ==
    Classified => call.result \in SafetyLevel

----------------------------------------------------------------------------
(* Claims about run and the feedback store (Spec, SpecScorer) *)

\* a step that is a call of run: it leaves the idle position
RunCalled == pc = "idle" /\ pc' # "idle"

\* C27: run invokes action handlers and records feedback only when the
\* scorer's decision is SAFE; with REQUIRE_APPROVAL or BLOCKED it runs no
\* action, leaves the feedback store and every file unchanged, and returns
\* executed = false with the proposal it was given, unmodified.
C27_ExecutesOnlyWhenSafe ==
    [][/\ (RunCalled /\ ret'.confidence_result.decision # "SAFE") =>
             /\ pc' = "done"
             /\ ret'.outcome = "returned"
             /\ ~ret'.executed
             /\ ret'.confidence_result = evaluate(cache, proposal', proposal'.confidence_score)
             /\ files' = files
             /\ UNCHANGED storeVars
       /\ pc' = "exec" => ret'.confidence_result.decision = "SAFE"
       /\ (files' # files \/ cache' # cache \/ disk' # disk) =>
             (pc = "exec" /\ ret.confidence_result.decision = "SAFE")
       /\ (pc # "idle" /\ pc' # "idle") => proposal' = proposal]_vars

\* run returned a proposal with actions for approval, despite its history
C27_Witness ==
    /\ pc = "done"
    /\ ret.outcome = "returned"
    /\ ret.confidence_result.decision = "REQUIRE_APPROVAL"
    /\ ret.confidence_result.reason = "Low confidence"
    /\ ret.history # NoneRate
    /\ proposal.actions # <<>>
    /\ ~ret.executed
    /\ files = InitialFiles
    /\ logs = <<<<0, "Execution blocked: Human approval required">>>>

\* C28: after any sequence of record_feedback calls every signature has
\* 0 <= successCount <= totalCount, no counter ever decreases, no signature
\* is ever removed, and a call for one signature leaves the counters of
\* every other signature as they were.
C28_CountersOnlyGrow ==
    [][\A sig \in Signatures :
          LET before == GetEntry(cache, sig)
              after  == GetEntry(cache', sig) IN
          /\ 0 <= after.success /\ after.success <= after.total
          /\ before.success <= after.success
          /\ before.total <= after.total
          /\ sig \in DOMAIN cache => sig \in DOMAIN cache'
          /\ recorded'[sig] = recorded[sig] =>
                /\ sig \in DOMAIN cache' <=> sig \in DOMAIN cache
                /\ after = before]_vars

\* a success and a failure were recorded for T1 in a store that held T2
C28_Witness ==
    /\ recorded["T1"] = Entry(3, 5)
    /\ recorded["T2"] = Entry(0, 1)
    /\ cache = ("T1" :> Entry(3, 5)) @@ ("T2" :> Entry(0, 1))
    /\ disk = DiskFile("ok", cache, TRUE)

\* C29: when the store starts empty and run is its only writer, every call
\* of run leaves the store empty and executes nothing: the decision is
\* never SAFE, no file changes and nothing is saved.
C29_EmptyStoreNeverSafe ==
    [][cache = EmptyStore =>
          /\ cache' = EmptyStore
          /\ disk' = disk
          /\ files' = files
          /\ pc' # "exec"
          /\ RunCalled => (ret'.confidence_result.decision # "SAFE" /\ ~ret'.executed)]_vars

\* run was given the highest score and actions on an empty store
C29_Witness ==
    /\ pc = "done"
    /\ ret.outcome = "returned"
    /\ cache = EmptyStore
    /\ disk.status # "ok"
    /\ proposal.confidence_score = 1000
    /\ proposal.actions # <<>>
    /\ ret.confidence_result.reason = "High AI confidence but no historical verification"
    /\ ~ret.executed
    /\ files = InitialFiles

\* C30 as claimed: an XML_EDIT action whose selector is neither
\* "dependency" nor "plugin" is reported as failed and leaves the target
\* file unchanged.
C30_UnknownSelectorLeavesFile ==
    (/\ Approved
     /\ call.op = "validators"
     /\ proposal.actions[call.idx].type = "XML_EDIT"
     /\ proposal.actions[call.idx].xml_selector \notin {"dependency", "plugin"})
        => /\ ~all_success
           /\ FileAt(files, proposal.actions[call.idx].file_path) = call.before

====
